---- MODULE Spec2Model ----
(***************************************************************************)
(* Model of aiortp/stats.py: JitterBuffer.__init__, the single pass that   *)
(* reconciles a captured RTP packet list into a de-duplicated packet list  *)
(* (self._data), a loss count (self.lost) and the loss and duplicate       *)
(* ratios (self.loss, self.duplicates).                                    *)
(* StreamStats.__init__ then derives the codec names, the jitter series    *)
(* and the RMS level from the packets the JitterBuffer kept.               *)
(*                                                                         *)
(* A packet is a record [id, seq]: id is the identity of the packet object *)
(* (its arrival index, 1-based), seq its RTP sequence number.  The Python  *)
(* loop index `position` is 0-based, so the current packet is              *)
(* stream[position + 1].  A float ratio a / b is kept as [num, den].       *)
(***************************************************************************)
EXTENDS Integers, Sequences, FiniteSets, TLC

\* ---- program constants ----
RTP_MAX_SEQ == 65535
window == 10

\* ---- bounds of the checked inputs ----
MaxLen == 4
MaxLong == 13
MaxMissing == 6

\* Sequence numbers used by the exhaustively enumerated short streams.
SeqVals == {0, 1, 2, 3, RTP_MAX_SEQ - 1, RTP_MAX_SEQ}
\* First sequence numbers of the structured long streams.
Starts == {0, 4, RTP_MAX_SEQ - 5}

VARIABLES packets, pc, raised, stream, position, expected_seq, first,
          lost_packets, duplicates, duplicate_mask,
          self_duplicates, self_lost, self_loss, self_data,
          taken,  \* the branch of the if/elif chain each iteration took
          media,  \* per packet id: p_type, timestamp, frametime, payload
          self_codecs, self_deltas, self_duration, self_jitter,
          self_audio, self_rms

vars == <<packets, pc, raised, stream, position, expected_seq, first,
          lost_packets, duplicates, duplicate_mask,
          self_duplicates, self_lost, self_loss, self_data, taken,
          media, self_codecs, self_deltas, self_duration, self_jitter,
          self_audio, self_rms>>

locals == <<stream, position, expected_seq, first,
            lost_packets, duplicates, duplicate_mask>>
outputs == <<self_duplicates, self_lost, self_loss, self_data>>
stats == <<self_codecs, self_deltas, self_duration, self_jitter,
           self_audio, self_rms>>

\* ---- input families ----
Min(a, b) == IF a < b THEN a ELSE b
Max(a, b) == IF a < b THEN b ELSE a

\* n consecutive sequence numbers from s, modulo 2^16
Contig(s, n) == [i \in 1..n |-> (s + i - 1) % (RTP_MAX_SEQ + 1)]
\* b with its i-th element arriving late, at position j > i
Late(b, i, j) ==
    [k \in 1..Len(b) |-> IF k < i THEN b[k]
                         ELSE IF k < j THEN b[k + 1]
                         ELSE IF k = j THEN b[i]
                         ELSE b[k]]
\* b with the k elements from position i missing
Missing(b, i, k) == [m \in 1..(Len(b) - k) |-> IF m < i THEN b[m] ELSE b[m + k]]
\* b with its i-th element immediately repeated
Repeated(b, i) == [m \in 1..(Len(b) + 1) |-> IF m <= i THEN b[m] ELSE b[m - 1]]

ShortStreams == UNION {[1..n -> SeqVals] : n \in 0..MaxLen}
LongStreams ==
    UNION { UNION { LET b == Contig(s, n) IN
                {b}
                \cup {Late(b, i, j) : i \in 1..n, j \in 1..n}
                \cup {Missing(b, i, k) : i \in 2..n, k \in 1..MaxMissing}
                \cup {Repeated(b, i) : i \in 1..n}
              : n \in 1..MaxLong } : s \in Starts }
Streams == ShortStreams \cup LongStreams

AsPackets(s) == [i \in 1..Len(s) |-> [id |-> i, seq |-> s[i]]]

\* ---- helpers of JitterBuffer.__init__ ----
Range(s) == {s[i] : i \in 1..Len(s)}

\* Python slice s[a:b] (0-based, half open, clipped to the list)
Slice(s, a, b) == [k \in 1..Max(0, Min(b, Len(s)) - a) |-> s[a + k]]

\* A gap is a list of Python ranges <<lo, hi>> (lo inclusive, hi exclusive)
\* whose members are pairwise distinct.  RangeLoss is the number of members
\* of one range that are not in buf.
RangeLoss(r, buf) ==
    Max(0, r[2] - r[1]) - Cardinality({v \in Range(buf) : r[1] <= v /\ v < r[2]})

RECURSIVE GapLoss(_, _)
GapLoss(gap, buf) ==
    IF gap = << >> THEN 0
    ELSE RangeLoss(Head(gap), buf) + GapLoss(Tail(gap), buf)

\* mutant: counts the gap members that ARE in the lookahead buffer
lookahead_found(gap, pos) ==
    LET buf == Slice(stream, pos, pos + window) IN
        Cardinality({v \in Range(buf) :
            \E k \in 1..Len(gap) : gap[k][1] <= v /\ v < gap[k][2]})

\* lookahead(gap, position, window=10): gap members absent from
\* stream[position:position + window]
lookahead(gap, pos) == GapLoss(gap, Slice(stream, pos, pos + window))

\* mutant: the reset fires one sequence number early
Rollover_early(e) == IF e >= RTP_MAX_SEQ THEN 0 ELSE e

\* mutant: the expected counter is never reset
Rollover_off(e) == e

\* lines 77-79: reset of the expected counter
Rollover(e) == IF e > RTP_MAX_SEQ THEN 0 ELSE e

\* mutant: the kept packets are collected in reverse order
RECURSIVE compress_reversed(_, _)
compress_reversed(data, selectors) ==
    IF data = << >> \/ selectors = << >> THEN << >>
    ELSE IF Head(selectors)
         THEN compress_reversed(Tail(data), Tail(selectors)) \o <<Head(data)>>
         ELSE compress_reversed(Tail(data), Tail(selectors))

\* itertools.compress(data, selectors): stops at the shorter argument
RECURSIVE compress(_, _)
compress(data, selectors) ==
    IF data = << >> \/ selectors = << >> THEN << >>
    ELSE IF Head(selectors)
         THEN <<Head(data)>> \o compress(Tail(data), Tail(selectors))
         ELSE compress(Tail(data), Tail(selectors))

Ratio(a, b) == [num |-> a, den |-> b]

current_seq == stream[position + 1]

\* ---- helpers of StreamStats.__init__ ----
\* Floats are modelled as exact rationals [num, den] in lowest terms with
\* den > 0 (rounding of the float operations is not modelled).
RECURSIVE GCD(_, _)
GCD(a, b) == IF b = 0 THEN a ELSE GCD(b, a % b)
Abs(a) == IF a < 0 THEN -a ELSE a
Rat(n, d) ==
    LET g == GCD(Abs(n), Abs(d))
        sgn == IF d < 0 THEN -1 ELSE 1
    IN  [num |-> sgn * (n \div g), den |-> sgn * (d \div g)]
RAdd(x, y) ==
    LET g == GCD(x.den, y.den) IN
        Rat(x.num * (y.den \div g) + y.num * (x.den \div g), (x.den \div g) * y.den)
RNeg(x) == [num |-> -x.num, den |-> x.den]
RSub(x, y) == RAdd(x, RNeg(y))
RMul(x, y) == Rat(x.num * y.num, x.den * y.den)
RDiv(x, y) == Rat(x.num * y.den, x.den * y.num)
RAbs(x) == [num |-> Abs(x.num), den |-> x.den]
Zero == Rat(0, 1)

sample_rate == 8000

RTP_PAYLOADS ==
    [c \in {0, 3, 4, 8, 9, 10, 11, 13, 18} |->
        CASE c = 0 -> "PCMU" [] c = 3 -> "GSM"   [] c = 4 -> "G723"
          [] c = 8 -> "PCMA" [] c = 9 -> "G722"  [] c = 10 -> "L16"
          [] c = 11 -> "L16" [] c = 13 -> "CN"   [] c = 18 -> "G729"]

\* RTP_PAYLOADS.get(codec, str(codec))
CodecName(codec) ==
    IF codec \in DOMAIN RTP_PAYLOADS THEN RTP_PAYLOADS[codec] ELSE ToString(codec)

\* [RTP_PAYLOADS.get(codec, str(codec)) for codec in codecs]: the list, whose
\* order is the iteration order of the set, as name |-> number of entries
CodecList(codecs) ==
    [name \in {CodecName(c) : c \in codecs} |->
        Cardinality({c \in codecs : CodecName(c) = name})]

\* mutant: the RTP delta is left in seconds
rtp_ms_seconds(ticks) == RMul(ticks, Rat(1, sample_rate))

\* lines 115-116: ticks * period * 1000 with period = 1 / sample_rate
rtp_ms(ticks) == RMul(RMul(ticks, Rat(1, sample_rate)), Rat(1000, 1))

\* np.diff
diff(a) == [i \in 1..(Len(a) - 1) |-> RSub(a[i + 1], a[i])]

\* mutant: the filter is seeded with the first sample instead of 0
RECURSIVE jitter_seeded(_, _)
jitter_seeded(deltas, last) ==
    IF deltas = << >> THEN << >>
    ELSE LET j == IF last = Zero THEN Head(deltas)
                  ELSE RAdd(last, RDiv(RSub(Head(deltas), last), Rat(16, 1)))
         IN  <<j>> \o jitter_seeded(Tail(deltas), j)

\* the loop of _calc_jitter: jitter[idx] = last = last + (diff - last) / 16
RECURSIVE jitter_from(_, _)
jitter_from(deltas, last) ==
    IF deltas = << >> THEN << >>
    ELSE LET j == RAdd(last, RDiv(RSub(Head(deltas), last), Rat(16, 1)))
         IN  <<j>> \o jitter_from(Tail(deltas), j)

calc_jitter(deltas) == jitter_from(deltas, Zero)

\* b''.join(x.packet.payload for x in pkts)
RECURSIVE join(_)
join(pkts) ==
    IF pkts = << >> THEN << >>
    ELSE media[Head(pkts).id].payload \o join(Tail(pkts))

\* np.fromstring(raw, dtype=np.int8): each byte as a signed 8-bit sample
fromstring(raw) == [i \in 1..Len(raw) |-> IF raw[i] >= 128 THEN raw[i] - 256 ELSE raw[i]]

RECURSIVE SumSquares(_)
SumSquares(a) == IF a = << >> THEN 0 ELSE Head(a) * Head(a) + SumSquares(Tail(a))
InLoop == pc = "loop" /\ position < Len(stream)

\* ---- media fields of the packets ----
MaxStat == 3
StatSeqVals == {0, 1, 2}
PTypes == {0, 10, 11, 96}
TsSteps == {160, 164, 320}
FtSteps == {20, 40}
Payloads == {<< >>, <<0, 0>>, <<1, 255>>}

RECURSIVE SumTo(_, _)
SumTo(steps, i) == IF i = 0 THEN 0 ELSE steps[i] + SumTo(steps, i - 1)

\* frametime is in seconds, timestamp in ticks of the RTP clock
Medium(pt, ts, ms, pl) ==
    [p_type |-> pt, timestamp |-> ts,
     frametime |-> Rat(ms, 1000),
     payload |-> pl]
DefaultMedia(n) == [i \in 1..n |-> Medium(0, 160 * (i - 1), 20 * (i - 1), <<1, 255>>)]
CodecMedia(n) ==
    {[i \in 1..n |-> Medium(pt[i], 160 * (i - 1), 20 * (i - 1), <<1, 255>>)] :
        pt \in [1..n -> PTypes]}
TimingMedia(n) ==
    {[i \in 1..n |-> Medium(0, SumTo(ts, i - 1), SumTo(ft, i - 1), <<1, 255>>)] :
        ts \in [1..(n - 1) -> TsSteps], ft \in [1..(n - 1) -> FtSteps]}
PayloadMedia(n) ==
    {[i \in 1..n |-> Medium(0, 160 * (i - 1), 20 * (i - 1), pl[i])] :
        pl \in [1..n -> Payloads]}
StatStreams == UNION {[1..n -> StatSeqVals] : n \in 0..MaxStat}
StatMedia(n) == CodecMedia(n) \cup TimingMedia(n) \cup PayloadMedia(n)

\* ---- actions ----
Init ==
    /\ packets \in {AsPackets(s) : s \in Streams}
    /\ pc = "start"
    /\ raised = "none"
    /\ stream = << >>
    /\ position = 0
    /\ expected_seq = 0
    /\ first = 0
    /\ lost_packets = 0
    /\ duplicates = 0
    /\ duplicate_mask = << >>
    /\ self_duplicates = Ratio(0, 0)
    /\ self_lost = 0
    /\ self_loss = Ratio(0, 0)
    /\ self_data = << >>
    /\ taken = << >>
    /\ media = DefaultMedia(Len(packets))
    /\ self_codecs = << >>
    /\ self_deltas = << >>
    /\ self_duration = Zero
    /\ self_jitter = << >>
    /\ self_audio = << >>
    /\ self_rms = [kind |-> "unset"]

\* mutant: an empty list is not rejected and the scan runs over nothing
Start_unchecked ==
    /\ pc = "start"
    /\ stream' = [i \in 1..Len(packets) |-> packets[i].seq]
    /\ pc' = "loop"
    /\ raised' = raised
    /\ expected_seq' = IF Len(packets) = 0 THEN 0 ELSE packets[1].seq
    /\ first' = IF Len(packets) = 0 THEN 0 ELSE packets[1].seq
    /\ lost_packets' = 0
    /\ duplicates' = 0
    /\ duplicate_mask' = << >>
    /\ position' = 0
    /\ UNCHANGED <<packets, outputs, taken, media, stats>>

\* mutant: the expected counter starts one past the first packet
Start_ahead ==
    /\ pc = "start"
    /\ stream' = [i \in 1..Len(packets) |-> packets[i].seq]
    /\ IF Len(packets) = 0
       THEN /\ pc' = "raised"
            /\ raised' = "IndexError"
            /\ UNCHANGED <<expected_seq, first>>
       ELSE /\ pc' = "loop"
            /\ raised' = raised
            /\ expected_seq' = packets[1].seq + 1
            /\ first' = packets[1].seq
    /\ lost_packets' = 0
    /\ duplicates' = 0
    /\ duplicate_mask' = << >>
    /\ position' = 0
    /\ UNCHANGED <<packets, outputs, taken, media, stats>>

\* lines 34-38: stream[0] raises IndexError on an empty list
Start ==
    /\ pc = "start"
    /\ stream' = [i \in 1..Len(packets) |-> packets[i].seq]
    /\ IF Len(packets) = 0
       THEN /\ pc' = "raised"
            /\ raised' = "IndexError"
            /\ UNCHANGED <<expected_seq, first>>
       ELSE /\ pc' = "loop"
            /\ raised' = raised
            /\ expected_seq' = packets[1].seq
            /\ first' = packets[1].seq
    /\ lost_packets' = 0
    /\ duplicates' = 0
    /\ duplicate_mask' = << >>
    /\ position' = 0
    /\ UNCHANGED <<packets, outputs, taken, media, stats>>

\* mutant: the in-order branch forgets to advance expected_seq
InOrder_stuck ==
    /\ InLoop
    /\ current_seq = expected_seq
    /\ duplicate_mask' = Append(duplicate_mask, TRUE)
    /\ expected_seq' = Rollover(expected_seq)
    /\ position' = position + 1
    /\ taken' = Append(taken, "inorder")
    /\ UNCHANGED <<packets, pc, raised, stream, first, lost_packets,
                   duplicates, outputs, media, stats>>

\* lines 50-55 and 77-79
InOrder ==
    /\ InLoop
    /\ current_seq = expected_seq
    /\ duplicate_mask' = Append(duplicate_mask, TRUE)
    /\ expected_seq' = Rollover(expected_seq + 1)
    /\ position' = position + 1
    /\ taken' = Append(taken, "inorder")
    /\ UNCHANGED <<packets, pc, raised, stream, first, lost_packets,
                   duplicates, outputs, media, stats>>

\* lines 56-60 and 77-79
Duplicate ==
    /\ InLoop
    /\ current_seq # expected_seq
    /\ current_seq = expected_seq - 1
    /\ duplicates' = duplicates + 1
    /\ duplicate_mask' = Append(duplicate_mask, FALSE)
    /\ expected_seq' = Rollover(expected_seq)
    /\ position' = position + 1
    /\ taken' = Append(taken, "duplicate")
    /\ UNCHANGED <<packets, pc, raised, stream, first, lost_packets, outputs, media, stats>>

\* lines 61-67 and 77-79
ForwardGap ==
    /\ InLoop
    /\ current_seq # expected_seq
    /\ current_seq # expected_seq - 1
    /\ current_seq > expected_seq
    /\ LET gap == << <<expected_seq, current_seq>> >> IN
         lost_packets' = lost_packets + lookahead(gap, position)
    /\ expected_seq' = Rollover(current_seq + 1)
    /\ duplicate_mask' = Append(duplicate_mask, TRUE)
    /\ position' = position + 1
    /\ taken' = Append(taken, "gap")
    /\ UNCHANGED <<packets, pc, raised, stream, first, duplicates, outputs, media, stats>>

\* mutant: the wrapped gap forgets the numbers from 0 up to the packet
WrapGap_nolow ==
    /\ InLoop
    /\ current_seq # expected_seq
    /\ current_seq # expected_seq - 1
    /\ ~(current_seq > expected_seq)
    /\ current_seq <= first
    /\ LET gap == << <<expected_seq, RTP_MAX_SEQ + 1>> >> IN
         lost_packets' = lost_packets + lookahead(gap, position)
    /\ expected_seq' = Rollover(current_seq + 1)
    /\ duplicate_mask' = Append(duplicate_mask, TRUE)
    /\ position' = position + 1
    /\ taken' = Append(taken, "wrap")
    /\ UNCHANGED <<packets, pc, raised, stream, first, duplicates, outputs, media, stats>>

\* lines 68-75 and 77-79
WrapGap ==
    /\ InLoop
    /\ current_seq # expected_seq
    /\ current_seq # expected_seq - 1
    /\ ~(current_seq > expected_seq)
    /\ current_seq <= first
    /\ LET gap == << <<expected_seq, RTP_MAX_SEQ + 1>>, <<0, current_seq>> >> IN
         lost_packets' = lost_packets + lookahead(gap, position)
    /\ expected_seq' = Rollover(current_seq + 1)
    /\ duplicate_mask' = Append(duplicate_mask, TRUE)
    /\ position' = position + 1
    /\ taken' = Append(taken, "wrap")
    /\ UNCHANGED <<packets, pc, raised, stream, first, duplicates, outputs, media, stats>>

\* lines 49-79 when no branch of the if/elif chain matches: nothing is
\* appended to duplicate_mask
Unclassified ==
    /\ InLoop
    /\ current_seq # expected_seq
    /\ current_seq # expected_seq - 1
    /\ ~(current_seq > expected_seq)
    /\ ~(current_seq <= first)
    /\ expected_seq' = Rollover(expected_seq)
    /\ position' = position + 1
    /\ taken' = Append(taken, "none")
    /\ UNCHANGED <<packets, pc, raised, stream, first, lost_packets,
                   duplicates, duplicate_mask, outputs, media, stats>>

\* lines 81-84
Finish ==
    /\ pc = "loop"
    /\ position = Len(stream)
    /\ self_duplicates' = Ratio(duplicates, Len(packets))
    /\ self_lost' = lost_packets
    /\ self_loss' = Ratio(lost_packets, Len(packets))
    /\ self_data' = compress(packets, duplicate_mask)
    /\ pc' = "done"
    /\ UNCHANGED <<packets, raised, locals, taken, media, stats>>

\* StreamStats.__init__, lines 95-98: the JitterBuffer is built by the
\* actions above; an IndexError of its constructor propagates (pc = "raised")
StatsCodecs ==
    /\ pc = "done"
    /\ LET codecs == {media[self_data[k].id].p_type : k \in 1..Len(self_data)} IN
         self_codecs' = CodecList(codecs)
    /\ pc' = "timing"
    /\ UNCHANGED <<packets, raised, locals, outputs, taken, media,
                   self_deltas, self_duration, self_jitter, self_audio, self_rms>>

\* mutant: fewer than two clean packets are rejected before the deltas
StatsJitter_guarded ==
    /\ pc = "timing"
    /\ LET n == Len(self_data)
           timestamps == [k \in 1..n |-> Rat(media[self_data[k].id].timestamp, 1)]
           frametimes == [k \in 1..n |-> media[self_data[k].id].frametime]
           timedelta == RSub(frametimes[n], frametimes[1])
           frame_ms == [i \in 1..(n - 1) |-> RMul(diff(frametimes)[i], Rat(1000, 1))]
           rtpdeltas == [i \in 1..(n - 1) |-> rtp_ms(diff(timestamps)[i])]
           deltas == [i \in 1..(n - 1) |-> RAbs(RSub(frame_ms[i], rtpdeltas[i]))]
       IN  IF n < 2
           THEN /\ pc' = "failed"
                /\ raised' = "InsufficientDataError"
                /\ UNCHANGED <<self_deltas, self_duration, self_jitter>>
           ELSE /\ self_deltas' = frame_ms
                /\ self_duration' = timedelta
                /\ self_jitter' = calc_jitter(deltas)
                /\ pc' = "audio"
                /\ raised' = raised
    /\ UNCHANGED <<packets, locals, outputs, taken, media,
                   self_codecs, self_audio, self_rms>>

\* lines 100-119; frametimes[-1] is defined because the first packet is
\* always in the JitterBuffer
StatsJitter ==
    /\ pc = "timing"
    /\ LET n == Len(self_data)
           timestamps == [k \in 1..n |-> Rat(media[self_data[k].id].timestamp, 1)]
           frametimes == [k \in 1..n |-> media[self_data[k].id].frametime]
           timedelta == RSub(frametimes[n], frametimes[1])
           frame_ms == [i \in 1..(n - 1) |-> RMul(diff(frametimes)[i], Rat(1000, 1))]
           rtpdeltas == [i \in 1..(n - 1) |-> rtp_ms(diff(timestamps)[i])]
           deltas == [i \in 1..(n - 1) |-> RAbs(RSub(frame_ms[i], rtpdeltas[i]))]
       IN  /\ self_deltas' = frame_ms
           /\ self_duration' = timedelta
           /\ self_jitter' = calc_jitter(deltas)
    /\ pc' = "audio"
    /\ UNCHANGED <<packets, raised, locals, outputs, taken, media,
                   self_codecs, self_audio, self_rms>>

\* lines 121-125: rms = norm / sqrt(size) is nan for no samples, and
\* math.log10(0.0) raises ValueError for all-zero samples; otherwise
\* self.rms = 20 * log10(sqrt(sumsq / size)), kept as the pair (sumsq, size)
StatsAudio ==
    /\ pc = "audio"
    /\ LET audio == fromstring(join(self_data))
           sumsq == SumSquares(audio)
       IN  /\ self_audio' = audio
           /\ IF Len(audio) = 0
              THEN /\ self_rms' = [kind |-> "nan"]
                   /\ pc' = "stats_done"
                   /\ raised' = raised
              ELSE IF sumsq = 0
              THEN /\ self_rms' = self_rms
                   /\ pc' = "failed"
                   /\ raised' = "ValueError"
              ELSE /\ self_rms' = [kind |-> "dB", sumsq |-> sumsq, size |-> Len(audio)]
                   /\ pc' = "stats_done"
                   /\ raised' = raised
    /\ UNCHANGED <<packets, locals, outputs, taken, media,
                   self_codecs, self_deltas, self_duration, self_jitter>>

Next ==
    \/ Start
    \/ InOrder
    \/ Duplicate
    \/ ForwardGap
    \/ WrapGap
    \/ Unclassified
    \/ Finish
    \/ StatsCodecs
    \/ StatsJitter
    \/ StatsAudio

Spec == Init /\ [][Next]_vars

\* StreamStats over short streams whose packets differ in payload type, in
\* timing or in payload
InitStats ==
    /\ packets \in {AsPackets(s) : s \in StatStreams}
    /\ media \in StatMedia(Len(packets))
    /\ pc = "start"
    /\ raised = "none"
    /\ stream = << >>
    /\ position = 0
    /\ expected_seq = 0
    /\ first = 0
    /\ lost_packets = 0
    /\ duplicates = 0
    /\ duplicate_mask = << >>
    /\ self_duplicates = Ratio(0, 0)
    /\ self_lost = 0
    /\ self_loss = Ratio(0, 0)
    /\ self_data = << >>
    /\ taken = << >>
    /\ self_codecs = << >>
    /\ self_deltas = << >>
    /\ self_duration = Zero
    /\ self_jitter = << >>
    /\ self_audio = << >>
    /\ self_rms = [kind |-> "unset"]

SpecStats == InitStats /\ [][Next]_vars

TypeOK ==
    /\ pc \in {"start", "loop", "done", "raised",
              "timing", "audio", "stats_done", "failed"}
    /\ position \in 0..Len(packets)
    /\ expected_seq \in 0..RTP_MAX_SEQ
    /\ Len(duplicate_mask) <= position

\* ---- vocabulary of the properties ----
N == Len(packets)
seqs == [i \in 1..N |-> packets[i].seq]
Done == pc = "done"

\* every packet's seq is the previous one plus 1 (so no wraparound)
Contiguous(s) == \A i \in 1..(Len(s) - 1) : s[i + 1] = s[i] + 1
\* every packet's seq is the previous one plus 1 modulo 2^16
ContiguousMod(s) ==
    \A i \in 1..(Len(s) - 1) : s[i + 1] = (s[i] + 1) % (RTP_MAX_SEQ + 1)
StrictlyIncreasing(s) == \A i \in 1..(Len(s) - 1) : s[i] < s[i + 1]
\* s without its i-th element
Without(s, i) == [k \in 1..(Len(s) - 1) |-> IF k < i THEN s[k] ELSE s[k + 1]]

\* C1: after reconcile of a non-empty input,
\* len(cleanSequence) + duplicateCount == originalPacketCount.
C1_LenPlusDuplicates ==
    Done => Len(self_data) + self_duplicates.num = N

\* C2: a stream whose seq grows by exactly 1 per packet, without wraparound,
\* gives lossRatio == 0, duplicateRatio == 0 and cleanSequence == input.
C2_ContiguousClean ==
    (Done /\ Contiguous(seqs)) =>
        /\ self_loss = Ratio(0, N)
        /\ self_duplicates = Ratio(0, N)
        /\ self_data = packets
C2_Witness ==
    /\ Done
    /\ Contiguous(seqs)
    /\ N >= 3
    /\ self_data = packets
    /\ self_loss = Ratio(0, N)

\* C3: a stream in which each seq is the previous one plus 1 modulo 65536
\* (it may pass from 65535 to 0) is contiguous: lostCount == 0,
\* duplicateCount == 0 and cleanSequence == input.
C3_WrapContiguous ==
    (Done /\ ContiguousMod(seqs)) =>
        /\ self_lost = 0
        /\ self_duplicates.num = 0
        /\ self_data = packets
C3_Witness ==
    /\ Done
    /\ ContiguousMod(seqs)
    /\ \E i \in 2..(N - 2) : seqs[i] = RTP_MAX_SEQ /\ seqs[i + 1] = 0
    /\ self_lost = 0
    /\ self_data = packets

\* the position whose packet is immediately repeated in an otherwise
\* contiguous (modulo 2^16) stream
RepeatAt(i) ==
    /\ i \in 1..(N - 1)
    /\ seqs[i + 1] = seqs[i]
    /\ ContiguousMod(Without(seqs, i + 1))

\* C4: in an otherwise contiguous stream of N packets where exactly one
\* packet is immediately followed by a packet with the same seq (any seq in
\* [0, 65535]), exactly one duplicate is counted (duplicateRatio == 1/N), no
\* loss is counted, and cleanSequence is the input without the repeat.
C4_ImmediateRepeat ==
    \A i \in 1..(N - 1) :
        (Done /\ RepeatAt(i)) =>
            /\ self_duplicates = Ratio(1, N)
            /\ self_lost = 0
            /\ self_data = Without(packets, i + 1)

\* C5: for a strictly increasing stream (no wraparound) lostCount is the
\* number of sequence numbers between the first and the last seq that are
\* absent from the input.
C5_LossIsAbsentCount ==
    (Done /\ StrictlyIncreasing(seqs)) =>
        self_lost = (seqs[N] - seqs[1] + 1) - N
C5_Witness ==
    /\ Done
    /\ StrictlyIncreasing(seqs)
    /\ {4, 8} \subseteq Range(seqs)
    /\ Range(seqs) \cap {5, 6, 7} = {}
    /\ seqs[1] + N + 2 = seqs[N]
    /\ self_lost = 3

\* q is the arrival position (1-based) of a packet that was skipped over:
\* some earlier packet carries a higher seq
IsLate(q) == \E p \in 1..(q - 1) : seqs[p] > seqs[q]
\* the packet that exposed the gap for the late packet at q
Exposer(q) == CHOOSE p \in 1..(q - 1) :
    seqs[p] > seqs[q] /\ \A r \in 1..(p - 1) : seqs[r] < seqs[q]
\* the stream carries each number of seqs[1]..seqs[1]+N-1 exactly once,
\* starting with the lowest, and every late packet is one of the next
\* `window` packets after the packet that exposed its gap
ReorderedWithinWindow ==
    /\ N >= 1
    /\ seqs[1] + N - 1 <= RTP_MAX_SEQ
    /\ Range(seqs) = seqs[1]..(seqs[1] + N - 1)
    /\ \A q \in 1..N : IsLate(q) => q - Exposer(q) <= window

\* C6: when every sequence number of a contiguous range arrives exactly once
\* and each skipped packet arrives within the lookahead window (the next 10
\* packets) of the packet that exposed the gap, lostCount == 0.
C6_ReorderAbsorbed ==
    (Done /\ ReorderedWithinWindow) => self_lost = 0

\* seq values carried by the Python positions a .. b-1 of the stream
Carried(a, b) == Range(Slice(stream, a, b))
InForwardGap(v) == expected_seq <= v /\ v < current_seq
AtForwardGap ==
    /\ InLoop
    /\ current_seq # expected_seq
    /\ current_seq # expected_seq - 1
    /\ current_seq > expected_seq

\* C7: when the packet at position p opens a forward gap, a missing number
\* carried by one of the packets at positions p+1 .. p+10 is not added to
\* lostCount, and one carried only at position p+11 or later is added.
C7_NextTenWindow ==
    [][AtForwardGap =>
        LET p == position
            gapSize == current_seq - expected_seq
            inWindow == {v \in Carried(p + 1, p + 1 + window) : InForwardGap(v)}
            onlyLater == {v \in Carried(p + 1 + window, Len(stream)) :
                            InForwardGap(v) /\ v \notin Carried(0, p + 1 + window)}
            added == lost_packets' - lost_packets
        IN  /\ added <= gapSize - Cardinality(inWindow)
            /\ added >= Cardinality(onlyLater)]_vars

\* C8: cleanSequence is a subsequence of the input: each element is an input
\* packet, no packet occurrence appears twice, and the kept packets are in
\* arrival order.
C8_Subsequence ==
    Done =>
        \A k \in 1..Len(self_data) :
            /\ self_data[k].id \in 1..N
            /\ self_data[k] = packets[self_data[k].id]
            /\ k > 1 => self_data[k - 1].id < self_data[k].id
C8_Witness ==
    /\ Done
    /\ Len(self_data) >= 3
    /\ Len(self_data) < N
    /\ \E k \in 1..(Len(self_data) - 1) : self_data[k].seq > self_data[k + 1].seq

\* C9: cleanSequence is deduplicated: no two of its packets carry the same
\* seq, whatever the arrival order of the repeated packets.
C9_NoRepeatedSeq ==
    Done =>
        \A i, j \in 1..Len(self_data) :
            i # j => self_data[i].seq # self_data[j].seq

OutputsUnset ==
    /\ self_duplicates = Ratio(0, 0)
    /\ self_lost = 0
    /\ self_loss = Ratio(0, 0)
    /\ self_data = << >>

\* C10 (as stated): reconcile of an empty list fails with EmptyStreamError
\* and produces no result.
C10_EmptyStreamError ==
    (N = 0 /\ pc # "start") =>
        /\ pc = "raised"
        /\ raised = "EmptyStreamError"
        /\ OutputsUnset

\* C10 (amended): reconcile of an empty list fails with the IndexError of
\* stream[0] and produces no result; a non-empty list raises nothing.
C10_EmptyRaisesIndexError ==
    /\ (N = 0 /\ pc # "start") =>
        /\ pc = "raised"
        /\ raised = "IndexError"
        /\ OutputsUnset
    /\ N > 0 => (pc # "raised" /\ raised = "none")
C10_Witness ==
    /\ N = 0
    /\ pc = "raised"
    /\ raised = "IndexError"

\* the branches that flag a packet "keep"
Accepted == {"inorder", "gap", "wrap"}
\* ids of the packets in cleanSequence
KeptIds == {self_data[k].id : k \in 1..Len(self_data)}
AtUnclassified ==
    /\ InLoop
    /\ current_seq < expected_seq - 1
    /\ current_seq > first

\* C15: a packet matching none of the four branches (seq < expectedSeq - 1
\* and seq > first) is not in cleanSequence, leaves lostCount, duplicateCount
\* and expectedSeq unchanged, and every other packet is kept or dropped as
\* its own branch decided.
C15_UnclassifiedIsInert ==
    /\ [](Done =>
            \A i \in 1..N :
                IF taken[i] = "none"
                THEN i \notin KeptIds
                ELSE (i \in KeptIds) <=> (taken[i] \in Accepted))
    /\ [][AtUnclassified =>
            /\ lost_packets' = lost_packets
            /\ duplicates' = duplicates
            /\ expected_seq' = expected_seq]_vars

\* C16: cleanSequence is exactly the packets flagged keep (accepted by the
\* in-order, forward-gap or wraparound branch), in arrival order.
C16_ExactlyFlaggedKeep ==
    Done => self_data = SelectSeq(packets, LAMBDA pkt : taken[pkt.id] \in Accepted)

\* C17: at the end of processing each packet expectedSeq is in [0, 65535],
\* and after an accepted packet it is (that packet's seq + 1) modulo 65536.
C17_ExpectedSeqInRange ==
    (pc \in {"loop", "done"} /\ position >= 1) =>
        /\ expected_seq \in 0..RTP_MAX_SEQ
        /\ taken[position] \in Accepted =>
              expected_seq = (stream[position] + 1) % (RTP_MAX_SEQ + 1)
C17_Witness ==
    /\ pc = "loop"
    /\ position >= 2
    /\ stream[position] = RTP_MAX_SEQ
    /\ taken[position] \in Accepted
    /\ expected_seq = 0

AtWrapGap ==
    /\ InLoop
    /\ current_seq # expected_seq
    /\ current_seq # expected_seq - 1
    /\ ~(current_seq > expected_seq)
    /\ current_seq <= first
\* the stream starts at 65530, loses 65532..65535, 0 and 1, resumes at 2
LosesSixAcrossWrap ==
    /\ N >= 3
    /\ seqs[1] = RTP_MAX_SEQ - 5
    /\ seqs[2] = RTP_MAX_SEQ - 4
    /\ seqs[3] = 2
    /\ \A i \in 3..(N - 1) : seqs[i + 1] = seqs[i] + 1

C19_FirstPacketKept ==
    Done =>
        /\ Len(self_data) >= 1
        /\ self_data[1] = packets[1]
        /\ self_duplicates.num <= N - 1
        /\ self_duplicates.den = N
C19_Witness ==
    /\ Done
    /\ N >= 3
    /\ self_duplicates.num = N - 1
    /\ self_data = <<packets[1]>>

\* ---- StreamStats properties (specification SpecStats) ----
AfterJitter == pc \in {"audio", "stats_done", "failed"}
Returned == pc = "stats_done"
CleanLen == Len(self_data)
CleanMedium(k) == media[self_data[k].id]
\* the payload bytes of cleanSequence are not empty and all zero
SilentPayload ==
    /\ \E k \in 1..CleanLen : CleanMedium(k).payload # << >>
    /\ \A k \in 1..CleanLen :
          \A b \in 1..Len(CleanMedium(k).payload) : CleanMedium(k).payload[b] = 0

\* C11 (as stated): with fewer than two packets in cleanSequence, StreamStats
\* construction fails with InsufficientDataError and returns no record.
C11_InsufficientDataError ==
    (N >= 1 /\ AfterJitter /\ CleanLen < 2) =>
        /\ pc = "failed"
        /\ raised = "InsufficientDataError"

\* C11 (amended): with fewer than two packets in cleanSequence, StreamStats
\* construction raises no InsufficientDataError: the jitter series is empty
\* and a statistics record is returned, unless the payload bytes are
\* non-empty and all zero, in which case math.log10 raises ValueError.
C11_SinglePacketReturns ==
    (N >= 1 /\ pc \in {"stats_done", "failed"} /\ CleanLen < 2) =>
        /\ self_jitter = << >>
        /\ raised # "InsufficientDataError"
        /\ Returned <=> ~SilentPayload
        /\ pc = "failed" => raised = "ValueError"
C11_Witness ==
    /\ Returned
    /\ N >= 2
    /\ CleanLen = 1
    /\ self_duplicates.num = N - 1
    /\ self_jitter = << >>

\* arrival-time delta and RTP-clock delta (both in ms) between the k-th and
\* the (k+1)-th packet of cleanSequence, and their absolute difference
FrameDeltaMs(k) ==
    RMul(RSub(CleanMedium(k + 1).frametime, CleanMedium(k).frametime), Rat(1000, 1))
RtpDeltaMs(k) == Rat(CleanMedium(k + 1).timestamp - CleanMedium(k).timestamp, 8)
AbsDiff(k) == RAbs(RSub(FrameDeltaMs(k), RtpDeltaMs(k)))
Sixteenth(x) == Rat(x.num, 16 * x.den)

\* C12: for a cleanSequence of n >= 2 packets the jitter series has n - 1
\* elements, J_0 = absDiff_0 / 16 and J_k = J_{k-1} + (absDiff_k - J_{k-1}) / 16.
C12_JitterRecurrence ==
    (AfterJitter /\ CleanLen >= 2) =>
        /\ Len(self_jitter) = CleanLen - 1
        /\ self_jitter[1] = Sixteenth(AbsDiff(1))
        /\ \A k \in 2..(CleanLen - 1) :
              self_jitter[k] =
                  RAdd(self_jitter[k - 1],
                       Sixteenth(RSub(AbsDiff(k), self_jitter[k - 1])))
C12_Witness ==
    /\ Returned
    /\ Len(self_jitter) >= 2
    /\ self_jitter[1] # Zero
    /\ self_jitter[2] # self_jitter[1]
    /\ AbsDiff(2) # AbsDiff(1)

ZeroInstantJitter == \A k \in 1..(CleanLen - 1) : FrameDeltaMs(k) = RtpDeltaMs(k)

\* C13: when every arrival-time delta equals the RTP delta converted to ms at
\* 8000 Hz, every element of the jitter series is 0.
C13_ZeroJitterStaysZero ==
    (AfterJitter /\ ZeroInstantJitter) =>
        \A k \in 1..Len(self_jitter) : self_jitter[k] = Zero
C13_Witness ==
    /\ Returned
    /\ ZeroInstantJitter
    /\ Len(self_jitter) >= 2
    /\ FrameDeltaMs(1) # FrameDeltaMs(2)
    /\ self_jitter = <<Zero, Zero>>

\* C14: codecs holds the name (or decimal string) of every payload type
\* present in cleanSequence, no other name, and no name more than once.
C14_CodecNamesOnce ==
    pc \in {"timing", "audio", "stats_done", "failed"} =>
        /\ DOMAIN self_codecs =
              {CodecName(CleanMedium(k).p_type) : k \in 1..CleanLen}
        /\ \A name \in DOMAIN self_codecs : self_codecs[name] = 1
====
